---- MODULE Spec2Model ----
(***************************************************************************)
(* State-machine model of the Home component of src/src/app/page.tsx:      *)
(* the webcam lifecycle (startWebcam / stopWebcam), image acquisition      *)
(* (handleFileChange, FileReader.onload, captureImage), the classification *)
(* request (classifyImage) and the endpoint configuration.                 *)
(*                                                                         *)
(* Every event handler runs to its first await (or to its end) as one      *)
(* atomic step: JavaScript is single threaded and React batches the state  *)
(* setters of one handler into one render.  Each awaited promise           *)
(* (getUserMedia, FileReader, fetch, response.json) is a pending item      *)
(* whose continuation is a separate step taken in any order.               *)
(***************************************************************************)
EXTENDS Integers, Sequences, FiniteSets, TLC

\* ----------------------------------------------------------------- bounds
\* Asynchronous operations started in one run: classifyImage calls, file
\* reads and getUserMedia requests together.
MaxOps == 3

\* -------------------------------------------------------------- constants
DEFAULT_SERVER_URL == "http://127.0.0.1:5001/predict"
OTHER_SERVER_URL == "http://10.0.0.2:5001/predict"

\* JavaScript null (imageSrc, localStorage.getItem) is the empty tuple.
Null == <<>>

\* URLs the configuration dialog may save (no syntax validation).
SaveUrls == {"", OTHER_SERVER_URL}

\* What localStorage may hold under the key at startup: absent or a string.
StoredValues == {Null, <<"">>, <<OTHER_SERVER_URL>>}

\* A file: its declared MIME type as <<major, minor>> (<<>>: unknown type)
\* and its content.
ImageA == [type |-> <<"image", "png">>, content |-> "AAAA"]
TextFile == [type |-> <<"text", "plain">>, content |-> "TTTT"]
NoTypeFile == [type |-> <<>>, content |-> "NNNN"]
Files == {ImageA, TextFile, NoTypeFile}

\* The FileList values a picker change or a drop may deliver; only files[0]
\* is ever looked at.
FileLists == {<<>>} \cup {<<f>> : f \in Files} \cup {<<TextFile, ImageA>>}

\* HTTP statuses the server may answer with.
Statuses == {200, 404, 500}

\* Prediction lists a 2xx body may carry.
RankedList ==
    << [class |-> "Alice", confidence |-> 91, confidence_percent |-> "91%", rank |-> 1],
       [class |-> "Bob", confidence |-> 5, confidence_percent |-> "5%", rank |-> 2] >>
UnrankedList ==
    << [class |-> "Bob", confidence |-> 5, confidence_percent |-> "5%", rank |-> 2],
       [class |-> "Alice", confidence |-> 91, confidence_percent |-> "91%", rank |-> 2] >>

\* Parsed JSON bodies: isNull (the JSON value null), error ("" when the field
\* is absent or empty, both falsy), hasPredictions / predictions.
Bodies ==
    { [isNull |-> FALSE, error |-> "", hasPredictions |-> TRUE, predictions |-> RankedList],
      [isNull |-> FALSE, error |-> "", hasPredictions |-> TRUE, predictions |-> UnrankedList],
      [isNull |-> FALSE, error |-> "model failed", hasPredictions |-> TRUE, predictions |-> RankedList],
      [isNull |-> FALSE, error |-> "model failed", hasPredictions |-> FALSE, predictions |-> <<>>],
      [isNull |-> FALSE, error |-> "", hasPredictions |-> TRUE, predictions |-> <<>>],
      [isNull |-> FALSE, error |-> "", hasPredictions |-> FALSE, predictions |-> <<>>],
      [isNull |-> TRUE, error |-> "", hasPredictions |-> FALSE, predictions |-> <<>>] }

\* ------------------------------------------------------------------ state
VARIABLES
    phase,           \* "new" (constructed, effects not run), "live", "gone" (unmounted)
    tab,             \* selected tab: "upload" | "webcam"
    hasMediaDevices, \* navigator.mediaDevices.getUserMedia exists
    stored,          \* localStorage["inference_server_url"]: Null or <<url>>
    serverUrl,       \* useState serverUrl
    imageSrc,        \* useState imageSrc: Null or a data URL
    predictions,     \* useState predictions
    isLoading,       \* useState isLoading
    streams,         \* MediaStreams by getUserMedia call: "pending" | "open" | "stopped" | "denied"
    srcObject,       \* videoRef.current.srcObject: 0 (null) or an index of streams
    reads,           \* pending FileReader reads, each with the classifyImage closure's serverUrl
    inflight,        \* pending classifyImage continuations (awaiting fetch or response.json)
    calls,           \* history: number of classifyImage calls so far; a call's id is its number
    appliedBy,       \* history: id of the call whose setPredictions(data.predictions) wrote predictions, else 0
    toasts           \* toast() calls made by the last step

vars == <<phase, tab, hasMediaDevices, stored, serverUrl, imageSrc, predictions,
          isLoading, streams, srcObject, reads, inflight, calls, appliedBy, toasts>>

camVars == <<streams, srcObject>>
classifyVars == <<predictions, isLoading, inflight, calls, appliedBy>>

\* ---------------------------------------------------------------- helpers
Toast(title, description) == [title |-> title, description |-> description]

ConfigToast == Toast("Configuration Error", "Inference server URL is not set.")
InvalidFileToast == Toast("Invalid File", "Please upload an image file.")
WebcamToast == Toast("Webcam Error", "Could not access webcam. Please check permissions.")
NoPredictionsToast == Toast("Classification Failed", "No predictions found in the response.")
FailedToast(message) == Toast("Classification Failed", message)

ServerErrorMessage(status) == "Server responded with " \o ToString(status)
FetchErrorMessage == "Failed to fetch"
JsonErrorMessage == "Unexpected token < in JSON at position 0"
NullBodyMessage == "Cannot read properties of null (reading 'error')"

\* response.ok
ResponseOk(status) == status >= 200 /\ status <= 299

\* file.type.startsWith("image/")
IsImageType(type) == Len(type) >= 1 /\ type[1] = "image"

\* A data URL as the list of its comma-separated parts (String.split(",")).
\* FileReader.readAsDataURL(file)
ReadAsDataURL(file) ==
    IF file.type = <<>>
    THEN <<"data:application/octet-stream;base64", file.content>>
    ELSE <<"data:" \o file.type[1] \o "/" \o file.type[2] \o ";base64", file.content>>

\* canvas.toDataURL("image/jpeg") of the frame drawn from the video: a video
\* without a stream has videoWidth = videoHeight = 0 and the empty canvas
\* encodes as "data:,".
ToDataURL(src) ==
    IF src = 0 THEN <<"data:", "">>
    ELSE <<"data:image/jpeg;base64", "FRAME">>

\* videoRef.current / canvasRef.current exist while the webcam tab's content
\* is mounted.
VideoMounted == phase = "live" /\ tab = "webcam"

\* Operations counted against MaxOps.
Started == calls + Len(reads) + Len(streams)

OpenStreams == {s \in 1..Len(streams) : streams[s] = "open"}
PendingStreams == {s \in 1..Len(streams) : streams[s] = "pending"}

\* ------------------------------------------------------------------- Init
Init ==
    /\ phase = "new"
    /\ tab = "upload"
    /\ hasMediaDevices \in BOOLEAN
    /\ stored \in StoredValues
    /\ serverUrl = ""
    /\ imageSrc = Null
    /\ predictions = <<>>
    /\ isLoading = FALSE
    /\ streams = <<>>
    /\ srcObject = 0
    /\ reads = <<>>
    /\ inflight = {}
    /\ calls = 0
    /\ appliedBy = 0
    /\ toasts = <<>>

\* Mutant of LoadServerUrl: storedUrl ?? DEFAULT_SERVER_URL, which lets a stored
\* empty string through.
LoadServerUrl_NoFallback(storedUrl) ==
    IF storedUrl # Null THEN storedUrl[1] ELSE DEFAULT_SERVER_URL

\* ------------------------------------------------- configuration (mount)
\* useEffect(() => { setServerUrl(storedUrl || DEFAULT_SERVER_URL) }, [])
LoadServerUrl(storedUrl) ==
    IF storedUrl # Null /\ storedUrl[1] # "" THEN storedUrl[1] ELSE DEFAULT_SERVER_URL

MountEffect ==
    /\ phase = "new"
    /\ phase' = "live"
    /\ serverUrl' = LoadServerUrl(stored)
    /\ toasts' = <<>>
    /\ UNCHANGED <<tab, hasMediaDevices, stored, imageSrc, camVars, reads, classifyVars>>

\* ServerUrlConfig's save: persists the URL and calls setServerUrl.
SaveServerUrl(url) ==
    /\ phase = "live"
    /\ stored' = <<url>>
    /\ serverUrl' = url
    /\ toasts' = <<>>
    /\ UNCHANGED <<phase, tab, hasMediaDevices, imageSrc, camVars, reads, classifyVars>>

\* ----------------------------------------------------------------- webcam
\* stopWebcam on the camera state cam = [streams, srcObject]; current is
\* whether videoRef.current is set when it runs.
StopWebcam(cam, current) ==
    IF current /\ cam.srcObject # 0
    THEN [streams |-> [cam.streams EXCEPT ![cam.srcObject] = "stopped"], srcObject |-> 0]
    ELSE cam

Camera == [streams |-> streams, srcObject |-> srcObject]

\* startWebcam up to its await: clears the result and the image, then asks
\* for the device when the API exists.
StartWebcam ==
    /\ predictions' = <<>>
    /\ appliedBy' = 0
    /\ imageSrc' = Null
    /\ IF hasMediaDevices
       THEN /\ Started < MaxOps
            /\ streams' = Append(streams, "pending")
       ELSE streams' = streams
    /\ srcObject' = srcObject

\* Tabs onValueChange: fires when the selected tab changes.
HandleTabChange(value) ==
    /\ phase = "live"
    /\ value # tab
    /\ tab' = value
    /\ toasts' = <<>>
    /\ IF value = "webcam"
       THEN StartWebcam
       ELSE /\ streams' = StopWebcam(Camera, VideoMounted).streams
            /\ srcObject' = StopWebcam(Camera, VideoMounted).srcObject
            /\ UNCHANGED <<predictions, appliedBy, imageSrc>>
    /\ UNCHANGED <<phase, hasMediaDevices, stored, serverUrl, isLoading, reads, inflight, calls>>

\* startWebcam after await getUserMedia resolved with stream s.
GetUserMediaResolves(s) ==
    /\ s \in PendingStreams
    /\ streams' = [streams EXCEPT ![s] = "open"]
    /\ srcObject' = IF VideoMounted THEN s ELSE srcObject
    /\ toasts' = <<>>
    /\ UNCHANGED <<phase, tab, hasMediaDevices, stored, serverUrl, imageSrc, reads, classifyVars>>

\* startWebcam's catch: getUserMedia rejected (denied, no device).
GetUserMediaRejects(s) ==
    /\ s \in PendingStreams
    /\ streams' = [streams EXCEPT ![s] = "denied"]
    /\ toasts' = <<WebcamToast>>
    /\ UNCHANGED <<phase, tab, hasMediaDevices, stored, serverUrl, imageSrc, srcObject, reads, classifyVars>>

\* The unmount cleanup effect: stopWebcam().  Whether videoRef.current is
\* still set when the cleanup runs is decided by the framework's commit
\* order, so both outcomes are kept.
Teardown ==
    /\ phase = "live"
    /\ phase' = "gone"
    /\ \E current \in (IF tab = "webcam" THEN BOOLEAN ELSE {FALSE}) :
          /\ streams' = StopWebcam(Camera, current).streams
          /\ srcObject' = StopWebcam(Camera, current).srcObject
    /\ toasts' = <<>>
    /\ UNCHANGED <<tab, hasMediaDevices, stored, serverUrl, imageSrc, reads, classifyVars>>

\* --------------------------------------------------------- classification
\* Mutant of ClassifyImage: the setPredictions([]) of line 84 is missing.
ClassifyImage_KeepsPredictions(base64Image, url) ==
    /\ calls' = calls + 1
    /\ UNCHANGED <<predictions, appliedBy>>
    /\ IF url = ""
       THEN /\ toasts' = <<ConfigToast>>
            /\ isLoading' = FALSE
            /\ inflight' = inflight
       ELSE /\ toasts' = <<>>
            /\ isLoading' = TRUE
            /\ inflight' = inflight \cup {[id |-> calls + 1, url |-> url, stage |-> "fetch"]}

\* classifyImage(base64Image) up to its first await; url is the serverUrl of
\* the closure being called.
ClassifyImage(base64Image, url) ==
    /\ calls' = calls + 1
    /\ predictions' = <<>>
    /\ appliedBy' = 0
    /\ IF url = ""
       THEN /\ toasts' = <<ConfigToast>>
            /\ isLoading' = FALSE
            /\ inflight' = inflight
       ELSE /\ toasts' = <<>>
            /\ isLoading' = TRUE
            /\ inflight' = inflight \cup
                  {[id |-> calls + 1, url |-> url, stage |-> "fetch"]}

\* Mutant of FetchRejects: the catch block swallows the error without a toast.
FetchRejects_NoToast(r) ==
    /\ r \in inflight /\ r.stage = "fetch"
    /\ inflight' = inflight \ {r}
    /\ toasts' = <<>>
    /\ isLoading' = FALSE
    /\ UNCHANGED <<phase, tab, hasMediaDevices, stored, serverUrl, imageSrc, camVars,
                   reads, predictions, calls, appliedBy>>

\* fetch rejected (unreachable host): catch, finally.
FetchRejects(r) ==
    /\ r \in inflight /\ r.stage = "fetch"
    /\ inflight' = inflight \ {r}
    /\ toasts' = <<FailedToast(FetchErrorMessage)>>
    /\ isLoading' = FALSE
    /\ UNCHANGED <<phase, tab, hasMediaDevices, stored, serverUrl, imageSrc, camVars,
                   reads, predictions, calls, appliedBy>>

\* Mutant of FetchResolves: setIsLoading(false) is not in a finally block, so
\* the throw of line 106 skips it.
FetchResolves_NoFinally(r, status) ==
    /\ r \in inflight /\ r.stage = "fetch"
    /\ IF ~ResponseOk(status)
       THEN /\ inflight' = inflight \ {r}
            /\ toasts' = <<FailedToast(ServerErrorMessage(status))>>
       ELSE /\ inflight' = (inflight \ {r}) \cup {[r EXCEPT !.stage = "json"]}
            /\ toasts' = <<>>
    /\ UNCHANGED <<phase, tab, hasMediaDevices, stored, serverUrl, imageSrc, camVars,
                   reads, predictions, isLoading, calls, appliedBy>>

\* Mutant of FetchResolves: the continuation re-reads serverUrl after the
\* await and carries on against that endpoint.
FetchResolves_Retargets(r, status) ==
    /\ r \in inflight /\ r.stage = "fetch"
    /\ IF ~ResponseOk(status)
       THEN /\ inflight' = inflight \ {r}
            /\ toasts' = <<FailedToast(ServerErrorMessage(status))>>
            /\ isLoading' = FALSE
       ELSE /\ inflight' = (inflight \ {r}) \cup
                              {[id |-> r.id, url |-> serverUrl, stage |-> "json"]}
            /\ toasts' = <<>>
            /\ isLoading' = isLoading
    /\ UNCHANGED <<phase, tab, hasMediaDevices, stored, serverUrl, imageSrc, camVars,
                   reads, predictions, calls, appliedBy>>

\* fetch resolved with an HTTP status: !response.ok throws, else await json().
FetchResolves(r, status) ==
    /\ r \in inflight /\ r.stage = "fetch"
    /\ IF ~ResponseOk(status)
       THEN /\ inflight' = inflight \ {r}
            /\ toasts' = <<FailedToast(ServerErrorMessage(status))>>
            /\ isLoading' = FALSE
       ELSE /\ inflight' = (inflight \ {r}) \cup {[r EXCEPT !.stage = "json"]}
            /\ toasts' = <<>>
            /\ isLoading' = isLoading
    /\ UNCHANGED <<phase, tab, hasMediaDevices, stored, serverUrl, imageSrc, camVars,
                   reads, predictions, calls, appliedBy>>

\* Mutant of JsonRejects: the rejection skips the finally block.
JsonRejects_LoadingStuck(r) ==
    /\ r \in inflight /\ r.stage = "json"
    /\ inflight' = inflight \ {r}
    /\ toasts' = <<FailedToast(JsonErrorMessage)>>
    /\ UNCHANGED <<phase, tab, hasMediaDevices, stored, serverUrl, imageSrc, camVars,
                   reads, predictions, isLoading, calls, appliedBy>>

\* response.json() rejected (body is not JSON): catch, finally.
JsonRejects(r) ==
    /\ r \in inflight /\ r.stage = "json"
    /\ inflight' = inflight \ {r}
    /\ toasts' = <<FailedToast(JsonErrorMessage)>>
    /\ isLoading' = FALSE
    /\ UNCHANGED <<phase, tab, hasMediaDevices, stored, serverUrl, imageSrc, camVars,
                   reads, predictions, calls, appliedBy>>

\* Mutant of JsonResolves: the predictions branch is tested before data.error.
JsonResolves_PredictionsFirst(r, data) ==
    /\ r \in inflight /\ r.stage = "json"
    /\ inflight' = inflight \ {r}
    /\ isLoading' = FALSE
    /\ IF data.isNull
       THEN /\ toasts' = <<FailedToast(NullBodyMessage)>>
            /\ UNCHANGED <<predictions, appliedBy>>
       ELSE IF data.hasPredictions /\ Len(data.predictions) > 0
       THEN /\ predictions' = data.predictions
            /\ appliedBy' = r.id
            /\ toasts' = <<>>
       ELSE IF data.error # ""
       THEN /\ toasts' = <<FailedToast(data.error)>>
            /\ UNCHANGED <<predictions, appliedBy>>
       ELSE /\ toasts' = <<NoPredictionsToast>>
            /\ UNCHANGED <<predictions, appliedBy>>
    /\ UNCHANGED <<phase, tab, hasMediaDevices, stored, serverUrl, imageSrc, camVars,
                   reads, calls>>

\* response.json() resolved with data: the error / predictions branches,
\* then finally.
JsonResolves(r, data) ==
    /\ r \in inflight /\ r.stage = "json"
    /\ inflight' = inflight \ {r}
    /\ isLoading' = FALSE
    /\ IF data.isNull
       THEN /\ toasts' = <<FailedToast(NullBodyMessage)>>
            /\ UNCHANGED <<predictions, appliedBy>>
       ELSE IF data.error # ""
       THEN /\ toasts' = <<FailedToast(data.error)>>
            /\ UNCHANGED <<predictions, appliedBy>>
       ELSE IF data.hasPredictions /\ Len(data.predictions) > 0
       THEN /\ predictions' = data.predictions
            /\ appliedBy' = r.id
            /\ toasts' = <<>>
       ELSE /\ toasts' = <<NoPredictionsToast>>
            /\ UNCHANGED <<predictions, appliedBy>>
    /\ UNCHANGED <<phase, tab, hasMediaDevices, stored, serverUrl, imageSrc, camVars,
                   reads, calls>>

\* ------------------------------------------------------------ acquisition
\* The capture button (disabled while isLoading) of the webcam tab.
CaptureImage ==
    /\ VideoMounted
    /\ ~isLoading
    /\ Started < MaxOps
    /\ imageSrc' = ToDataURL(srcObject)
    /\ ClassifyImage(ToDataURL(srcObject), serverUrl)
    /\ streams' = StopWebcam(Camera, TRUE).streams
    /\ srcObject' = StopWebcam(Camera, TRUE).srcObject
    /\ UNCHANGED <<phase, tab, hasMediaDevices, stored, serverUrl, reads>>

\* Mutant of HandleFileChange: the file.type check of line 157 is missing.
HandleFileChange_NoTypeCheck(files) ==
    /\ phase = "live"
    /\ tab = "upload"
    /\ IF files = <<>>
       THEN /\ toasts' = <<>>
            /\ reads' = reads
       ELSE /\ Started < MaxOps
            /\ toasts' = <<>>
            /\ reads' = Append(reads, [file |-> files[1], url |-> serverUrl])
    /\ UNCHANGED <<phase, tab, hasMediaDevices, stored, serverUrl, imageSrc, camVars, classifyVars>>

\* handleFileChange(files), from the picker's onChange or from onDrop; the
\* reader's onload closes over this render's classifyImage.
HandleFileChange(files) ==
    /\ phase = "live"
    /\ tab = "upload"
    /\ IF files = <<>>
       THEN /\ toasts' = <<>>
            /\ reads' = reads
       ELSE IF ~IsImageType(files[1].type)
       THEN /\ toasts' = <<InvalidFileToast>>
            /\ reads' = reads
       ELSE /\ Started < MaxOps
            /\ toasts' = <<>>
            /\ reads' = Append(reads, [file |-> files[1], url |-> serverUrl])
    /\ UNCHANGED <<phase, tab, hasMediaDevices, stored, serverUrl, imageSrc, camVars, classifyVars>>

RemoveAt(seq, i) == SubSeq(seq, 1, i - 1) \o SubSeq(seq, i + 1, Len(seq))

\* reader.onload of the i-th pending read.
ReaderOnload(i) ==
    /\ i \in 1..Len(reads)
    /\ imageSrc' = ReadAsDataURL(reads[i].file)
    /\ ClassifyImage(ReadAsDataURL(reads[i].file), reads[i].url)
    /\ reads' = RemoveAt(reads, i)
    /\ UNCHANGED <<phase, tab, hasMediaDevices, stored, serverUrl, camVars>>

\* The i-th pending read fails: no onerror handler is installed.
ReaderFails(i) ==
    /\ i \in 1..Len(reads)
    /\ reads' = RemoveAt(reads, i)
    /\ toasts' = <<>>
    /\ UNCHANGED <<phase, tab, hasMediaDevices, stored, serverUrl, imageSrc, camVars, classifyVars>>

\* The clear button, rendered while imageSrc is set.
ClearImage ==
    /\ phase = "live"
    /\ imageSrc # Null
    /\ imageSrc' = Null
    /\ predictions' = <<>>
    /\ appliedBy' = 0
    /\ toasts' = <<>>
    /\ UNCHANGED <<phase, tab, hasMediaDevices, stored, serverUrl, camVars, reads,
                   isLoading, inflight, calls>>

\* ---------------------------------------------------------- specification
Next ==
    \/ MountEffect
    \/ \E files \in FileLists : HandleFileChange(files)
    \/ \E i \in 1..Len(reads) : ReaderOnload(i)
    \/ \E i \in 1..Len(reads) : ReaderFails(i)
    \/ \E r \in inflight, status \in Statuses : FetchResolves(r, status)
    \/ \E r \in inflight : FetchRejects(r)
    \/ \E r \in inflight, data \in Bodies : JsonResolves(r, data)
    \/ \E r \in inflight : JsonRejects(r)
    \/ ClearImage
    \/ \E url \in SaveUrls : SaveServerUrl(url)
    \/ \E value \in {"upload", "webcam"} : HandleTabChange(value)
    \/ \E s \in 1..Len(streams) : GetUserMediaResolves(s)
    \/ \E s \in 1..Len(streams) : GetUserMediaRejects(s)
    \/ CaptureImage
    \/ Teardown

Spec == Init /\ [][Next]_vars

\* The network call that classifyImage call `id` awaits settles: fetch
\* resolves or rejects, then response.json() resolves or rejects.
Settle(id) ==
    \E r \in inflight :
       /\ r.id = id
       /\ \/ FetchRejects(r)
          \/ \E status \in Statuses : FetchResolves(r, status)
          \/ JsonRejects(r)
          \/ \E data \in Bodies : JsonResolves(r, data)

\* Every network call eventually resolves or fails.
FairSpec == Spec /\ \A id \in 1..MaxOps : WF_vars(Settle(id))

\* ------------------------------------------------------------- properties
\* The camera session is Idle: nothing attached, nothing open, nothing pending.
CameraIdle(cam) ==
    /\ cam.srcObject = 0
    /\ \A s \in 1..Len(cam.streams) : cam.streams[s] \notin {"open", "pending"}

\* The request of the latest classifyImage call is still pending.
LatestPending == \E r \in inflight : r.id = calls

\* A step in which classifyImage is called.
ClassifyStep == CaptureImage \/ \E i \in 1..Len(reads) : ReaderOnload(i)

\* C1: a response is applied to the result only if it answers the most
\* recently issued classification: the displayed predictions are never those
\* of a superseded call.
C1_StaleResponseDiscarded == appliedBy # 0 => appliedBy = calls

\* C2: while the most recently issued classification is pending, isLoading is
\* true, whatever superseded classifications complete meanwhile.
C2_LoadingWhileLatestPending == LatestPending => isLoading

\* C3: a request issued by a classifyImage call targets the endpoint that is
\* configured (last loaded or saved) when the call is made.
C3_NextClassificationUsesSavedUrl ==
    [][ClassifyStep => \A r \in inflight' : r.id = calls' => r.url = serverUrl]_vars

\* C4: at most one device stream is open at any time.
C4_SingleOpenStream == Cardinality(OpenStreams) <= 1

\* C5: away from the camera tab, and after teardown, no device stream is open.
C5_NoStreamOpenAfterExit == (tab = "upload" \/ phase = "gone") => OpenStreams = {}

\* C6: a classifyImage call made while the configured endpoint is empty raises
\* exactly the configuration-error toast, issues no request and leaves
\* isLoading false.
C6_EmptyEndpointFails ==
    [][(ClassifyStep /\ serverUrl = "") =>
          (toasts' = <<ConfigToast>> /\ inflight' = inflight /\ isLoading' = FALSE)]_vars

\* The file lists that handleFileChange rejects.
NonImageFileLists == {files \in FileLists : files # <<>> /\ ~IsImageType(files[1].type)}

\* C7: submitting a file list whose first file is not of an image type raises
\* the invalid-file toast and changes neither the image, the predictions, the
\* loading flag, the pending reads nor the pending requests.
C7_NonImageRejected ==
    [][\A files \in NonImageFileLists :
          HandleFileChange(files) =>
             /\ toasts' = <<InvalidFileToast>>
             /\ UNCHANGED <<imageSrc, predictions, isLoading, reads, inflight, calls>>]_vars

C7_Witness ==
    /\ toasts = <<InvalidFileToast>>
    /\ imageSrc # Null
    /\ predictions # <<>>

\* C8: in the state reached by the step that calls classifyImage for a newly
\* acquired image (file read or camera capture), imageSrc is that image and
\* predictions is empty.
C8_AcquisitionReplacesImageClearsResult ==
    [][/\ \A i \in 1..Len(reads) :
             ReaderOnload(i) =>
                (imageSrc' = ReadAsDataURL(reads[i].file) /\ predictions' = <<>>)
       /\ CaptureImage =>
             (imageSrc' = ToDataURL(srcObject) /\ predictions' = <<>>)]_vars

C8_Witness ==
    /\ calls = 2
    /\ \E r \in inflight : r.id = 2 /\ r.stage = "fetch"
    /\ \A r \in inflight : r.id = 2
    /\ imageSrc = ToDataURL(1)
    /\ predictions = <<>>
    /\ isLoading

\* C9 as claimed: a non-success status raises the server-error toast with the
\* status code, leaves predictions empty and isLoading false.  Stated for the
\* steps taken while the displayed result, if any, answers the latest call, so
\* that no superseded response (C1) is involved.
C9_ServerErrorLeavesResultEmpty ==
    [][\A r \in inflight, status \in Statuses :
          (C1_StaleResponseDiscarded /\ ~ResponseOk(status) /\ FetchResolves(r, status)) =>
             /\ toasts' = <<FailedToast(ServerErrorMessage(status))>>
             /\ predictions' = <<>>
             /\ isLoading' = FALSE]_vars

\* C9 amended: a non-success status raises the server-error toast with the
\* status code, leaves predictions unchanged and isLoading false.
C9_ServerErrorLeavesResultUnchanged ==
    [][\A r \in inflight, status \in Statuses :
          (~ResponseOk(status) /\ FetchResolves(r, status)) =>
             /\ toasts' = <<FailedToast(ServerErrorMessage(status))>>
             /\ predictions' = predictions
             /\ isLoading' = FALSE]_vars

C9_Witness ==
    /\ toasts = <<FailedToast("Server responded with 500")>>
    /\ predictions # <<>>
    /\ ~isLoading

\* C10: from every state in which stopWebcam can run on the video element,
\* running it ends in Idle, running it again changes nothing more, and from
\* Idle it changes nothing.
C10_StopIdempotentToIdle ==
    VideoMounted =>
        /\ CameraIdle(StopWebcam(Camera, TRUE))
        /\ StopWebcam(StopWebcam(Camera, TRUE), TRUE) = StopWebcam(Camera, TRUE)
        /\ (CameraIdle(Camera) => StopWebcam(Camera, TRUE) = Camera)

\* C11: a capture attempted while no open stream is attached to the video
\* element (the session is not Active) produces no image, leaves imageSrc
\* unchanged and starts no classification.
C11_CaptureOnlyFromActive ==
    [][(CaptureImage /\ srcObject \notin OpenStreams) =>
          (imageSrc' = imageSrc /\ calls' = calls /\ inflight' = inflight)]_vars

\* C12: a start that cannot become Active (the device API is missing, or the
\* request is rejected) raises the webcam-error toast and leaves the session
\* Idle: nothing attached, nothing open, nothing pending.
C12_FailedStartNotifiesAndIdles ==
    [][/\ (HandleTabChange("webcam") /\ ~hasMediaDevices) =>
             /\ toasts' = <<WebcamToast>>
             /\ CameraIdle([streams |-> streams', srcObject |-> srcObject'])
       /\ \A s \in 1..Len(streams) :
             GetUserMediaRejects(s) =>
                /\ toasts' = <<WebcamToast>>
                /\ CameraIdle([streams |-> streams', srcObject |-> srcObject'])]_vars

\* Ranks are exactly 1..Len (unique, contiguous from 1) and the prediction of
\* rank 1 carries the highest confidence; the empty list qualifies.
WellRanked(list) ==
    /\ {list[i].rank : i \in 1..Len(list)} = 1..Len(list)
    /\ \A i, j \in 1..Len(list) :
          list[i].rank = 1 => list[i].confidence >= list[j].confidence

\* C13: in every reachable state predictions is empty or a list whose ranks
\* are unique and contiguous from 1 with rank 1 carrying the highest
\* confidence.
C13_ResultWellRanked == WellRanked(predictions)

\* C14: the mount effect's load yields the stored URL when one is stored and
\* non-empty and DEFAULT_SERVER_URL when nothing or the empty string is
\* stored; the loaded endpoint is never empty.
C14_LoadYieldsStoredOrDefault ==
    [][MountEffect =>
          /\ serverUrl' # ""
          /\ serverUrl' = IF stored = Null \/ stored = <<"">>
                          THEN DEFAULT_SERVER_URL
                          ELSE stored[1]]_vars

\* An empty string was stored and the load answered with the default.
C14_Witness ==
    /\ phase = "live"
    /\ calls = 0
    /\ stored = <<"">>
    /\ serverUrl = DEFAULT_SERVER_URL

IsSuccessBody(data) ==
    ~data.isNull /\ data.error = "" /\ data.hasPredictions /\ Len(data.predictions) > 0

\* C16: each way a classification fails (empty endpoint, fetch rejected,
\* non-2xx status, unparsable body, error field or no predictions) raises
\* exactly one toast in the step where it fails, and the steps of a
\* classification that has not failed raise none.
C16_OneNotificationPerFailure ==
    [][/\ \A i \in 1..Len(reads) :
             ReaderOnload(i) =>
                toasts' = IF reads[i].url = "" THEN <<ConfigToast>> ELSE <<>>
       /\ CaptureImage =>
             toasts' = IF serverUrl = "" THEN <<ConfigToast>> ELSE <<>>
       /\ \A r \in inflight :
             /\ FetchRejects(r) => toasts' = <<FailedToast(FetchErrorMessage)>>
             /\ JsonRejects(r) => toasts' = <<FailedToast(JsonErrorMessage)>>
             /\ \A status \in Statuses :
                   FetchResolves(r, status) =>
                      toasts' = IF ResponseOk(status)
                                THEN <<>>
                                ELSE <<FailedToast(ServerErrorMessage(status))>>
             /\ \A data \in Bodies :
                   JsonResolves(r, data) =>
                      Len(toasts') = IF IsSuccessBody(data) THEN 0 ELSE 1]_vars

\* A classification failed on the server's status and its single toast is up.
C16_Witness ==
    /\ calls = 1
    /\ inflight = {}
    /\ ~isLoading
    /\ toasts = <<FailedToast(ServerErrorMessage(500))>>

\* classifyImage call `id` has been made and has not reached its end.
InFlight(id) == \E r \in inflight : r.id = id

\* C17: a classifyImage call sets isLoading unless it ends at once on the
\* empty endpoint; if every network call settles, every call that is in
\* flight eventually ends; and whenever nothing is in flight isLoading is
\* false.
C17_LoadingClearedAndTerminates ==
    /\ [](inflight = {} => ~isLoading)
    /\ [][ClassifyStep => (isLoading' <=> \E r \in inflight' : r.id = calls + 1)]_vars
    /\ \A id \in 1..MaxOps : InFlight(id) ~> ~InFlight(id)

\* A classification ran to its end: predictions applied, nothing in flight,
\* isLoading cleared.
C17_Witness ==
    /\ calls = 1
    /\ inflight = {}
    /\ ~isLoading
    /\ appliedBy = 1
    /\ predictions = RankedList

C19_ResultBelongsToImage ==
    predictions # <<>> => (imageSrc # Null /\ appliedBy = calls)

====
